---- MODULE Spec2Model ----
(***************************************************************************)
(* Model of oc_validator's table reader (table_reader.py) and of the error *)
(* mapper of its HTML interface (interface/gui.py).                        *)
(*                                                                         *)
(* Python values are represented as follows.                               *)
(*   str            a sequence of one-character strings, "" being <<>>     *)
(*   Optional[x]    None is <<>>, a present value x is <<x>>               *)
(*   list           a sequence; Python's 0-based index i is position i+1   *)
(*   dict           a function (a record when the keys are fixed labels);  *)
(*                  the dicts of a report, whose iteration order matters,  *)
(*                  are sequences of <<key, value>> pairs with distinct    *)
(*                  keys                                                   *)
(* Identifiers built with f-strings (item_id, err_id) are TLA+ strings.    *)
(***************************************************************************)
EXTENDS Integers, Sequences, FiniteSets, TLC

(***************************************************************************)
(* Bounds of the model.                                                    *)
(***************************************************************************)
\* rows of the input table
MaxRows == 2
\* entries of the validation report
MaxReport == 2
\* characters of a raw cell of a row whose parsing is explored
MaxCell == 2
\* columns present in a raw row whose parsing is explored
MaxPresent == 1

None == <<>>
Some(x) == <<x>>

(***************************************************************************)
(* Python primitives.                                                      *)
(***************************************************************************)
\* position of the first occurrence of sep in s at or after i, 0 when none
RECURSIVE Find(_, _, _)
Find(s, sep, i) ==
  IF i + Len(sep) - 1 > Len(s) THEN 0
  ELSE IF SubSeq(s, i, i + Len(sep) - 1) = sep THEN i
  ELSE Find(s, sep, i + 1)

\* str.split(sep) with a non-empty separator
RECURSIVE Split(_, _)
Split(s, sep) ==
  LET j == Find(s, sep, 1) IN
  IF j = 0 THEN <<s>>
  ELSE <<SubSeq(s, 1, j - 1)>> \o Split(SubSeq(s, j + Len(sep), Len(s)), sep)

\* dict.get(key): None when the key is missing
Get(raw_row, key) ==
  IF key \in DOMAIN raw_row THEN Some(raw_row[key]) ELSE None

\* dict.get(key, default)
GetDefault(raw_row, key, default) ==
  IF key \in DOMAIN raw_row THEN raw_row[key] ELSE default

\* list[idx]: the 1-based position list[idx] reads, 0 when it raises IndexError
PyIndex(len, idx) ==
  IF idx >= 0 /\ idx < len THEN idx + 1
  ELSE IF idx < 0 /\ idx >= -len THEN len + idx + 1
  ELSE 0

\* int(k) of the row keys a report uses
IntOf(k) ==
  CASE k = "0" -> 0
    [] k = "1" -> 1
    [] k = "-1" -> -1

(***************************************************************************)
(* table_reader.py                                                         *)
(***************************************************************************)
\* AgentItem and VenueInfo keep the raw string, which str() returns
AgentItem(raw) == [raw |-> raw]
VenueInfo(raw) == [raw |-> raw]
Str(obj) == obj.raw

_parse_id_field(value) ==
  IF value = <<>> THEN <<>> ELSE Split(value, <<" ">>)

_parse_agent_field(value) ==
  IF value = None \/ value[1] = <<>> THEN None
  ELSE LET items == Split(value[1], <<";", " ">>) IN
       Some([i \in 1..Len(items) |-> AgentItem(items[i])])

_parse_venue_field(value) ==
  IF value = None \/ value[1] = <<>> THEN None
  ELSE Some(VenueInfo(value[1]))

\* a scalar field is stored as raw_row.get(label) returns it
ScalarField(raw_row, label) == Get(raw_row, label)

MetadataRow(raw_row) ==
  [cls |-> "MetadataRow",
   id |-> _parse_id_field(GetDefault(raw_row, "id", <<>>)),
   title |-> ScalarField(raw_row, "title"),
   author |-> _parse_agent_field(Get(raw_row, "author")),
   pub_date |-> ScalarField(raw_row, "pub_date"),
   venue |-> _parse_venue_field(Get(raw_row, "venue")),
   volume |-> ScalarField(raw_row, "volume"),
   issue |-> ScalarField(raw_row, "issue"),
   page |-> ScalarField(raw_row, "page"),
   type |-> ScalarField(raw_row, "type"),
   publisher |-> _parse_agent_field(Get(raw_row, "publisher")),
   editor |-> _parse_agent_field(Get(raw_row, "editor"))]

CitationsRow(raw_row) ==
  [cls |-> "CitationsRow",
   citing_id |-> _parse_id_field(GetDefault(raw_row, "citing_id", <<>>)),
   citing_publication_date |-> ScalarField(raw_row, "citing_publication_date"),
   cited_id |-> _parse_id_field(GetDefault(raw_row, "cited_id", <<>>)),
   cited_publication_date |-> ScalarField(raw_row, "cited_publication_date")]

\* [x] if x is not None else []
ScalarItems(opt) == IF opt # None THEN <<opt[1]>> ELSE <<>>

\* [str(agent) for agent in x] if x is not None else []
AgentItems(opt) ==
  IF opt # None THEN [i \in 1..Len(opt[1]) |-> Str(opt[1][i])] ELSE <<>>

\* [str(venue)] if venue is not None else []
VenueItems(opt) == IF opt # None THEN <<Str(opt[1])>> ELSE <<>>

flat_serialise(row) ==
  IF row.cls = "MetadataRow"
  THEN [id |-> row.id,
        title |-> ScalarItems(row.title),
        author |-> AgentItems(row.author),
        pub_date |-> ScalarItems(row.pub_date),
        venue |-> VenueItems(row.venue),
        volume |-> ScalarItems(row.volume),
        issue |-> ScalarItems(row.issue),
        page |-> ScalarItems(row.page),
        type |-> ScalarItems(row.type),
        publisher |-> AgentItems(row.publisher),
        editor |-> AgentItems(row.editor)]
  ELSE [citing_id |-> row.citing_id,
        citing_publication_date |-> ScalarItems(row.citing_publication_date),
        cited_id |-> row.cited_id,
        cited_publication_date |-> ScalarItems(row.cited_publication_date)]

read_metadata_row(row_dict) == MetadataRow(row_dict)
read_citations_row(row_dict) == CitationsRow(row_dict)

(***************************************************************************)
(* interface/gui.py                                                        *)
(***************************************************************************)
Range(seq) == {seq[i] : i \in 1..Len(seq)}

\* the colors random sampling can produce; several samples give one color
Samples == 0..5
\* '#{:02x}{:02x}{:02x}'.format(...) of the sampled hue, saturation, value
HexColor(sample) == sample \div 2

\* f"{row_idx}-{field_label}-empty"
EmptyItemId(row_idx, field_label) ==
  ToString(row_idx) \o "-" \o field_label \o "-empty"

\* ItemId without the field label
ItemIdNoLabel(row_idx, field_label, item_idx) ==
  ToString(row_idx) \o "-" \o ToString(item_idx)

\* f"{row_idx}-{field_label}-{item_idx}"
ItemId(row_idx, field_label, item_idx) ==
  ToString(row_idx) \o "-" \o field_label \o "-" \o ToString(item_idx)

\* the list of item dicts of one field
FieldValueModel(items_in_field, row_idx, field_label) ==
  IF items_in_field = <<>>
  THEN <<[raw |-> <<>>,
          item_id |-> EmptyItemId(row_idx, field_label),
          issues |-> <<>>]>>
  ELSE [k \in 1..Len(items_in_field) |->
          [raw |-> items_in_field[k],
           item_id |-> ItemId(row_idx, field_label, k - 1),
           issues |-> <<>>]]

model_row_default(row, row_idx) ==
  LET flat == flat_serialise(row) IN
  [contains_issue |-> FALSE,
   row_idx |-> row_idx,
   fields |-> [field_label \in DOMAIN flat |->
                 FieldValueModel(flat[field_label], row_idx, field_label)]]

\* items_indexes, None standing for the whole field
ItemsIndexes(items_indexes) ==
  IF items_indexes = None THEN <<0>> ELSE items_indexes[1]

\* the (field_label, item_idx) pairs the inner loops of enrich_row visit for
\* one field_info, in order
RECURSIVE FieldCoords(_)
FieldCoords(field_info) ==
  IF field_info = <<>> THEN <<>>
  ELSE LET field_label == field_info[1][1]
           idxs == ItemsIndexes(field_info[1][2])
       IN [k \in 1..Len(idxs) |-> <<field_label, idxs[k]>>]
            \o FieldCoords(Tail(field_info))

\* the pairs enrich_row visits: its outer loop runs over every row key of the
\* error's table and the loop variable row_idx is not used in the body
RECURSIVE TableCoords(_)
TableCoords(table) ==
  IF table = <<>> THEN <<>>
  ELSE FieldCoords(table[1][2]) \o TableCoords(Tail(table))

\* AppendIssue without the membership test
AppendIssueAlways(issues, err_id) == Append(issues, err_id)

\* AppendIssue inserting at the front
PrependIssue(issues, err_id) ==
  IF err_id \in Range(issues) THEN issues ELSE <<err_id>> \o issues

\* if err_id not in data_item['issues']: data_item['issues'].append(err_id)
AppendIssue(issues, err_id) ==
  IF err_id \in Range(issues) THEN issues ELSE Append(issues, err_id)

\* the loop body of enrich_row over the pairs still to visit; the item dicts
\* are mutated in place, so what was appended before a raise stays
RECURSIVE Attach(_, _, _)
Attach(fields, coords, err_id) ==
  IF coords = <<>> THEN [fields |-> fields, raised |-> "none"]
  ELSE LET field_label == coords[1][1]
           item_idx == coords[1][2]
       IN IF field_label \notin DOMAIN fields
          THEN [fields |-> fields, raised |-> "KeyError"]
          ELSE LET p == PyIndex(Len(fields[field_label]), item_idx) IN
               IF p = 0
               THEN [fields |-> fields, raised |-> "IndexError"]
               ELSE Attach([fields EXCEPT ![field_label][p].issues =
                                             AppendIssue(@, err_id)],
                           Tail(coords), err_id)

enrich_row(modeled_row, error_obj, err_id) ==
  LET res == Attach(modeled_row.fields, TableCoords(error_obj.table), err_id) IN
  [row |-> [modeled_row EXCEPT
              !.fields = res.fields,
              !.contains_issue = IF res.raised = "none" THEN TRUE ELSE @],
   raised |-> res.raised]

\* ErrId counting the errors from 1
ErrIdOneBased(table_type, err_idx) == table_type \o "-" \o ToString(err_idx + 1)

\* f"{table_type}-{err_idx}"
ErrId(table_type, err_idx) == table_type \o "-" \o ToString(err_idx)

\* the catalog entry of one error
ErrorInfo(error_obj, color) ==
  [message |-> error_obj.message,
   label |-> error_obj.error_label,
   level |-> error_obj.error_type,
   color |-> color]

\* [int(k) for k in error_obj['position']['table'].keys()]
InvalidRowsIndexes(error_obj) ==
  [k \in 1..Len(error_obj.table) |-> IntOf(error_obj.table[k][1])]

(***************************************************************************)
(* State: the inputs (parser, raw_data, report) and the locals of          *)
(* map_errors_to_data.                                                     *)
(***************************************************************************)
VARIABLES
  parser,                \* "meta" or "cits": the row class the caller parses with
  raw_data,              \* the raw rows, a list of dicts
  report,                \* the validation report, a list of error objects
  data,                  \* the typed rows
  out_data,              \* the row models
  table_type,            \* "meta" or "cits", "" before it is set
  colors,                \* the set generate_error_colors fills and the loop pops
  out_errors,            \* the error catalog, a dict keyed by err_id
  err_idx,               \* the report ordinal of the loop of map_errors_to_data
  invalid_rows_indexes,  \* the row indexes of the current error not yet enriched
  pc,                    \* the position in the run
  fault                  \* the exception that ended the run, "none" when none

vars == <<parser, raw_data, report, data, out_data, table_type, colors,
          out_errors, err_idx, invalid_rows_indexes, pc, fault>>

(***************************************************************************)
(* Inputs.                                                                 *)
(***************************************************************************)
Parsers == {"meta", "cits"}

MetaColumns == {"id", "title", "author", "pub_date", "venue", "volume",
                "issue", "page", "type", "publisher", "editor"}
CitsColumns == {"citing_id", "citing_publication_date", "cited_id",
                "cited_publication_date"}
Columns(p) == IF p = "meta" THEN MetaColumns ELSE CitsColumns

\* the id-list column and a scalar column of each table, used by the reports
IdColumn(p) == IF p = "meta" THEN "id" ELSE "citing_id"
ScalarColumn(p) == IF p = "meta" THEN "title" ELSE "citing_publication_date"

CellChars == {"a", " ", ";"}
Cells == UNION {[1..n -> CellChars] : n \in 0..MaxCell}

\* raw rows with at most MaxPresent columns, each holding any cell
ParsedRows(p) ==
  UNION {[S -> Cells] : S \in {T \in SUBSET Columns(p) : Cardinality(T) <= MaxPresent}}

\* raw rows of the tables errors are mapped to: the id column holds no value
\* or two values, the other columns are missing
MappedCells == {<<>>, <<"a", " ", "b">>}
MappedRows(p) == {[c \in {IdColumn(p)} |-> v] : v \in MappedCells}

SeqsUpTo(S, n) == UNION {[1..k -> S] : k \in 0..n}

RowKeys == {"0", "1", "-1"}
IdxLists == {None, Some(<<>>), Some(<<0>>), Some(<<1>>), Some(<<-1>>), Some(<<0, 0>>)}

\* field maps: empty, the id column with any index list, the scalar column as
\* a whole field
FieldMaps(p) ==
  {<<>>} \cup {<< <<IdColumn(p), il>> >> : il \in IdxLists}
         \cup {<< <<ScalarColumn(p), None>> >>}

\* position tables of one row key or of two different row keys
KeyEntries(p) == RowKeys \X FieldMaps(p)
Tables(p) ==
  {<<>>} \cup {<<e>> : e \in KeyEntries(p)}
         \cup {<<ee[1], ee[2]>> :
                  ee \in {x \in KeyEntries(p) \X KeyEntries(p) : x[1][1] # x[2][1]}}

ErrorObject(message, error_label, error_type, table) ==
  [message |-> message, error_label |-> error_label,
   error_type |-> error_type, table |-> table]

\* reports of one error with any position table
PositionReports(p) ==
  {<<ErrorObject("m0", "l0", "error", t)>> : t \in Tables(p)}

\* reports of up to MaxReport errors that address row 0
SeriesTables(p) ==
  {<< <<"0", <<>> >> >>,
   << <<"0", << <<IdColumn(p), None>> >> >> >>,
   << <<"0", << <<IdColumn(p), Some(<<1, 0>>)>> >> >> >>}
SeriesErrors(p) ==
  {ErrorObject(i[1], i[2], i[3], t) :
     i \in {<<"m0", "l0", "error">>, <<"m1", "l1", "warning">>},
     t \in SeriesTables(p)}
SeriesReports(p) == SeqsUpTo(SeriesErrors(p), MaxReport)

InitLocals ==
  /\ data = <<>>
  /\ out_data = <<>>
  /\ table_type = ""
  /\ colors = {}
  /\ out_errors = <<>>
  /\ err_idx = 0
  /\ invalid_rows_indexes = <<>>
  /\ pc = "read"
  /\ fault = "none"

\* one raw row of any shape, no error
InitParse ==
  /\ parser \in Parsers
  /\ raw_data \in {<<r>> : r \in ParsedRows(parser)}
  /\ report = <<>>

\* a table and one error of any position
InitPosition ==
  /\ parser \in Parsers
  /\ raw_data \in SeqsUpTo(MappedRows(parser), MaxRows)
  /\ report \in PositionReports(parser)

\* a table and a series of errors
InitSeries ==
  /\ parser \in Parsers
  /\ raw_data \in SeqsUpTo(MappedRows(parser), MaxRows)
  /\ report \in SeriesReports(parser)

Init == (InitParse \/ InitPosition \/ InitSeries) /\ InitLocals

(***************************************************************************)
(* Actions.                                                                *)
(***************************************************************************)
\* structured_data = [parser(row) for row in raw_data]
ReadRows ==
  /\ pc = "read"
  /\ data' = [k \in 1..Len(raw_data) |->
                IF parser = "meta" THEN read_metadata_row(raw_data[k])
                                   ELSE read_citations_row(raw_data[k])]
  /\ pc' = "model"
  /\ UNCHANGED <<parser, raw_data, report, out_data, table_type, colors,
                 out_errors, err_idx, invalid_rows_indexes, fault>>

\* out_data = [model_row_default(row, idx) ...]; table_type = ... data[0] ...
ModelRows ==
  /\ pc = "model"
  /\ out_data' = [k \in 1..Len(data) |-> model_row_default(data[k], k - 1)]
  /\ IF data = <<>>
     THEN /\ pc' = "failed"
          /\ fault' = "IndexError"
          /\ UNCHANGED table_type
     ELSE /\ table_type' = IF data[1].cls = "CitationsRow" THEN "cits" ELSE "meta"
          /\ pc' = "colors"
          /\ UNCHANGED fault
  /\ UNCHANGED <<parser, raw_data, report, data, colors, out_errors, err_idx,
                 invalid_rows_indexes>>

\* one iteration of the loop of generate_error_colors(len(report))
SampleColor ==
  /\ pc = "colors"
  /\ Cardinality(colors) < Len(report)
  /\ \E sample \in Samples : colors' = colors \cup {HexColor(sample)}
  /\ UNCHANGED <<parser, raw_data, report, data, out_data, table_type,
                 out_errors, err_idx, invalid_rows_indexes, pc, fault>>

\* return colors; out_errors = {}
ColorsDone ==
  /\ pc = "colors"
  /\ ~(Cardinality(colors) < Len(report))
  /\ pc' = "errors"
  /\ UNCHANGED <<parser, raw_data, report, data, out_data, table_type, colors,
                 out_errors, err_idx, invalid_rows_indexes, fault>>

\* the head of one iteration of the loop over the report: the catalog entry
\* with a popped color, then the list of row indexes
StoreError ==
  /\ pc = "errors"
  /\ err_idx < Len(report)
  /\ LET error_obj == report[err_idx + 1]
         err_id == ErrId(table_type, err_idx)
     IN IF colors = {}
        THEN /\ pc' = "failed"
             /\ fault' = "KeyError"
             /\ UNCHANGED <<colors, out_errors, invalid_rows_indexes>>
        ELSE /\ \E color \in colors :
                  /\ colors' = colors \ {color}
                  /\ out_errors' =
                       [k \in DOMAIN out_errors \cup {err_id} |->
                          IF k = err_id THEN ErrorInfo(error_obj, color)
                                        ELSE out_errors[k]]
             /\ invalid_rows_indexes' = InvalidRowsIndexes(error_obj)
             /\ pc' = "enrich"
             /\ UNCHANGED fault
  /\ UNCHANGED <<parser, raw_data, report, data, out_data, table_type, err_idx>>

\* out_data[i] = enrich_row(out_data[i], error_obj, err_id) for the next i
EnrichRow ==
  /\ pc = "enrich"
  /\ invalid_rows_indexes # <<>>
  /\ LET i == Head(invalid_rows_indexes)
         p == PyIndex(Len(out_data), i)
     IN IF p = 0
        THEN /\ pc' = "failed"
             /\ fault' = "IndexError"
             /\ UNCHANGED <<out_data, invalid_rows_indexes>>
        ELSE LET res == enrich_row(out_data[p], report[err_idx + 1],
                                   ErrId(table_type, err_idx))
             IN /\ out_data' = [out_data EXCEPT ![p] = res.row]
                /\ IF res.raised = "none"
                   THEN /\ invalid_rows_indexes' = Tail(invalid_rows_indexes)
                        /\ UNCHANGED <<pc, fault>>
                   ELSE /\ pc' = "failed"
                        /\ fault' = res.raised
                        /\ UNCHANGED invalid_rows_indexes
  /\ UNCHANGED <<parser, raw_data, report, data, table_type, colors,
                 out_errors, err_idx>>

\* the end of one iteration of the loop over the report
NextError ==
  /\ pc = "enrich"
  /\ invalid_rows_indexes = <<>>
  /\ err_idx' = err_idx + 1
  /\ pc' = "errors"
  /\ UNCHANGED <<parser, raw_data, report, data, out_data, table_type, colors,
                 out_errors, invalid_rows_indexes, fault>>

\* return out_data, out_errors
Return ==
  /\ pc = "errors"
  /\ err_idx = Len(report)
  /\ pc' = "done"
  /\ UNCHANGED <<parser, raw_data, report, data, out_data, table_type, colors,
                 out_errors, err_idx, invalid_rows_indexes, fault>>

Next ==
  \/ ReadRows
  \/ ModelRows
  \/ SampleColor
  \/ ColorsDone
  \/ StoreError
  \/ EnrichRow
  \/ NextError
  \/ Return

Spec == Init /\ [][Next]_vars

(***************************************************************************)
(* Vocabulary of the properties.                                           *)
(***************************************************************************)
\* the identifier "{tableType}-{k}" of the error of ordinal k
IdOfOrdinal(k) == table_type \o "-" \o ToString(k)

Ordinals == 0..(Len(report) - 1)
RowIndexes == 0..(Len(out_data) - 1)
Labels(r) == DOMAIN out_data[r + 1].fields
ItemIndexes(r, f) == 0..(Len(out_data[r + 1].fields[f]) - 1)
Item(r, f, i) == out_data[r + 1].fields[f][i + 1]

\* the run is over, by a return or by an exception
Ended == pc \in {"done", "failed"}

\* the error of ordinal k lists item i of field f under the row key r
Addressed(k, r, f, i) ==
  \E e \in Range(report[k + 1].table) :
    /\ IntOf(e[1]) = r
    /\ \E fe \in Range(e[2]) : fe[1] = f /\ i \in Range(ItemsIndexes(fe[2]))

\* the row index r and every item index listed under it are within the model
KeyInRange(e) ==
  /\ IntOf(e[1]) \in RowIndexes
  /\ \A fe \in Range(e[2]) :
       /\ fe[1] \in Labels(IntOf(e[1]))
       /\ \A i \in Range(ItemsIndexes(fe[2])) : i \in ItemIndexes(IntOf(e[1]), fe[1])

AllInRange ==
  \A k \in Ordinals : \A e \in Range(report[k + 1].table) : KeyInRange(e)

\* position of an identifier in an issues list, 0 when absent
PosIn(issues, id) ==
  IF id \in Range(issues) THEN CHOOSE p \in 1..Len(issues) : issues[p] = id ELSE 0

\* C1: after a pass over a report whose coordinates are all in range, the
\* identifier of error k is in the issues of item i of field f of row r exactly
\* when error k lists i (a null list counting as [0]) for f under the row key
\* r, and such a pass does not fail.
C1_AttachedIffAddressed ==
  (Ended /\ out_data # <<>> /\ AllInRange) =>
    /\ pc = "done"
    /\ \A k \in Ordinals : \A r \in RowIndexes : \A f \in Labels(r) :
         \A i \in ItemIndexes(r, f) :
           (IdOfOrdinal(k) \in Range(Item(r, f, i).issues)) <=> Addressed(k, r, f, i)

\* C2: a report entry with a row index or item index out of bounds ends the
\* pass in a MappingError; its identifier is attached to no item the entry does
\* not list, and no enriched model is returned.
C2_OutOfRangeIsMappingError ==
  \A k \in Ordinals :
    (out_data # <<>> /\ \E e \in Range(report[k + 1].table) : ~KeyInRange(e)) =>
      /\ pc # "done"
      /\ (pc = "failed" /\ err_idx = k) => fault = "MappingError"
      /\ \A r \in RowIndexes : \A f \in Labels(r) : \A i \in ItemIndexes(r, f) :
           (IdOfOrdinal(k) \in Range(Item(r, f, i).issues)) => Addressed(k, r, f, i)

\* C3: after the pass, contains_issue of a row is true exactly when some item
\* of the row has a non-empty issues list.
C3_ContainsIssueIffIssues ==
  pc = "done" =>
    \A r \in RowIndexes :
      out_data[r + 1].contains_issue <=>
        \E f \in Labels(r) : \E i \in ItemIndexes(r, f) : Item(r, f, i).issues # <<>>

\* C4: an error that lists field f under row key r with a null index list is
\* attached to item 0 of that field of row r and to no other item of it.
C4_WildcardOnlyItemZero ==
  pc = "done" =>
    \A k \in Ordinals : \A e \in Range(report[k + 1].table) :
      \A fe \in Range(e[2]) :
        (fe[2] = None /\ IntOf(e[1]) \in RowIndexes) =>
          \A i \in ItemIndexes(IntOf(e[1]), fe[1]) :
            (IdOfOrdinal(k) \in Range(Item(IntOf(e[1]), fe[1], i).issues)) <=> (i = 0)

\* C5: no issues list ever holds an identifier twice, and enriching a row model
\* again with an error already applied to it leaves its issues lists as they
\* are.
C5_NoDuplicateIssues ==
  \A r \in RowIndexes :
    /\ \A f \in Labels(r) : \A i \in ItemIndexes(r, f) :
         Cardinality(Range(Item(r, f, i).issues)) = Len(Item(r, f, i).issues)
    /\ \A k \in Ordinals :
         LET once == enrich_row(out_data[r + 1], report[k + 1], IdOfOrdinal(k))
             twice == enrich_row(once.row, report[k + 1], IdOfOrdinal(k))
         IN twice.row.fields = once.row.fields

\* C5 witness: the pass returned after an error visited one item twice, and
\* the item holds the identifier.
C5_Witness ==
  /\ pc = "done"
  /\ \E k \in Ordinals :
       LET coords == TableCoords(report[k + 1].table) IN
       \E p, q \in 1..Len(coords) :
         /\ p < q
         /\ coords[p] = coords[q]
         /\ \E r \in RowIndexes :
              /\ coords[p][1] \in Labels(r)
              /\ coords[p][2] \in ItemIndexes(r, coords[p][1])
              /\ IdOfOrdinal(k) \in Range(Item(r, coords[p][1], coords[p][2]).issues)

\* C6: in every issues list the identifiers stand in the order of their
\* errors in the report.
C6_IssuesInReportOrder ==
  \A r \in RowIndexes : \A f \in Labels(r) : \A i \in ItemIndexes(r, f) :
    \A a, b \in Ordinals :
      (/\ a < b
       /\ IdOfOrdinal(a) \in Range(Item(r, f, i).issues)
       /\ IdOfOrdinal(b) \in Range(Item(r, f, i).issues)) =>
        PosIn(Item(r, f, i).issues, IdOfOrdinal(a))
          < PosIn(Item(r, f, i).issues, IdOfOrdinal(b))

\* C6 witness: the pass returned and one item holds the identifiers of the
\* first two errors, in that order.
C6_Witness ==
  /\ pc = "done"
  /\ Len(report) >= 2
  /\ \E r \in RowIndexes : \E f \in Labels(r) : \E i \in ItemIndexes(r, f) :
       Item(r, f, i).issues = <<IdOfOrdinal(0), IdOfOrdinal(1)>>

\* C7: the returned catalog has one entry per error of the report, keyed
\* "{tableType}-{k}" with tableType cits or meta, entry k carrying the message,
\* label and type of error k; the colors of two entries differ, the colors
\* generated are as many as the errors, each is popped once, and no pop finds
\* the set empty.
C7_CatalogAndColors ==
  /\ fault # "KeyError"
  /\ pc \in {"errors", "enrich", "done"} =>
       /\ table_type \in {"cits", "meta"}
       /\ Cardinality(colors) + Cardinality(DOMAIN out_errors) = Len(report)
       /\ \A id \in DOMAIN out_errors : out_errors[id].color \notin colors
       /\ \A id1, id2 \in DOMAIN out_errors :
            id1 # id2 => out_errors[id1].color # out_errors[id2].color
  /\ pc = "done" =>
       /\ DOMAIN out_errors = {IdOfOrdinal(k) : k \in Ordinals}
       /\ Cardinality(DOMAIN out_errors) = Len(report)
       /\ colors = {}
       /\ \A k \in Ordinals :
            /\ out_errors[IdOfOrdinal(k)].message = report[k + 1].message
            /\ out_errors[IdOfOrdinal(k)].label = report[k + 1].error_label
            /\ out_errors[IdOfOrdinal(k)].level = report[k + 1].error_type

\* C7 witness: the pass returned a catalog of two errors with different
\* messages.
C7_Witness ==
  /\ pc = "done"
  /\ Len(report) = 2
  /\ report[1].message # report[2].message
  /\ Cardinality(DOMAIN out_errors) = 2

\* C8: right after the rows are modelled, every field of the flattened row has
\* either the one sentinel item (raw "", item_id "{rowIndex}-{label}-empty")
\* when it is empty or one item per value, in order, with item_id
\* "{rowIndex}-{label}-{index}"; issues lists are empty, contains_issue is
\* false, and no two items of a row share an item_id.
C8_ModelOfFlattenedRow ==
  pc = "colors" =>
    \A r \in RowIndexes :
      LET flat == flat_serialise(data[r + 1])
          model == out_data[r + 1]
          prefix(f) == ToString(r) \o "-" \o f \o "-"
      IN /\ model.contains_issue = FALSE
         /\ model.row_idx = r
         /\ DOMAIN model.fields = DOMAIN flat
         /\ \A f \in DOMAIN flat :
              IF flat[f] = <<>>
              THEN /\ Len(model.fields[f]) = 1
                   /\ model.fields[f][1] =
                        [raw |-> <<>>, item_id |-> prefix(f) \o "empty", issues |-> <<>>]
              ELSE /\ Len(model.fields[f]) = Len(flat[f])
                   /\ \A i \in 1..Len(flat[f]) :
                        model.fields[f][i] =
                          [raw |-> flat[f][i],
                           item_id |-> prefix(f) \o ToString(i - 1),
                           issues |-> <<>>]
         /\ \A f1, f2 \in DOMAIN flat :
              \A i1 \in 1..Len(model.fields[f1]) : \A i2 \in 1..Len(model.fields[f2]) :
                (f1 # f2 \/ i1 # i2) =>
                  model.fields[f1][i1].item_id # model.fields[f2][i2].item_id

\* C8 witness: a modelled row with a field of several items and an empty field.
C8_Witness ==
  /\ pc = "colors"
  /\ \E r \in RowIndexes :
       /\ \E f \in Labels(r) : Len(out_data[r + 1].fields[f]) >= 2
       /\ \E f \in Labels(r) : flat_serialise(data[r + 1])[f] = <<>>

ScalarLabels ==
  {"title", "pub_date", "volume", "issue", "page", "type",
   "citing_publication_date", "cited_publication_date"}

\* C9: a scalar field whose raw value is "" or missing is absent in the typed
\* row, flattens to an empty list and is modelled by the one sentinel item.
C9_EmptyScalarIsAbsent ==
  pc = "colors" =>
    \A r \in RowIndexes : \A f \in ScalarLabels \cap Labels(r) :
      (f \notin DOMAIN raw_data[r + 1] \/ raw_data[r + 1][f] = <<>>) =>
        /\ data[r + 1][f] = None
        /\ flat_serialise(data[r + 1])[f] = <<>>
        /\ Len(out_data[r + 1].fields[f]) = 1
        /\ out_data[r + 1].fields[f][1].item_id = EmptyItemId(r, f)

\* the row indexes the current error lists as row keys
KeysOfCurrent == {IntOf(e[1]) : e \in Range(report[err_idx + 1].table)}

IsPrefix(s, t) == Len(s) <= Len(t) /\ SubSeq(t, 1, Len(s)) = s

\* C10: a step of the pass changes, in the row models, nothing but issues
\* lists and contains_issue flags: row_idx, the labels, the items of each field
\* with their raw and item_id stay, an issues list only grows at its end,
\* contains_issue never goes from true to false, and a row whose index is not a
\* row key of the error being processed stays as it is.
C10_Step ==
  (pc \in {"colors", "errors", "enrich"}) =>
    /\ Len(out_data') = Len(out_data)
    /\ \A r \in RowIndexes :
         /\ out_data'[r + 1].row_idx = out_data[r + 1].row_idx
         /\ DOMAIN out_data'[r + 1].fields = DOMAIN out_data[r + 1].fields
         /\ out_data[r + 1].contains_issue => out_data'[r + 1].contains_issue
         /\ \A f \in Labels(r) :
              /\ Len(out_data'[r + 1].fields[f]) = Len(out_data[r + 1].fields[f])
              /\ \A i \in ItemIndexes(r, f) :
                   /\ out_data'[r + 1].fields[f][i + 1].raw = Item(r, f, i).raw
                   /\ out_data'[r + 1].fields[f][i + 1].item_id = Item(r, f, i).item_id
                   /\ IsPrefix(Item(r, f, i).issues,
                               out_data'[r + 1].fields[f][i + 1].issues)
         /\ (pc = "enrich" /\ r \notin KeysOfCurrent) =>
              out_data'[r + 1] = out_data[r + 1]
C10_AppendOnly == [][C10_Step]_vars

====
